---- MODULE Spec2Model ----
(***************************************************************************)
(* Model of calculate_scene_durations (src/main.py, lines 31-109): the     *)
(* scene-duration aligner of the video pipeline.                           *)
(*                                                                         *)
(* A text is a sequence of characters; a character is a TLA+ string that   *)
(* names one code point ("a", " ", ",", and, for the CJK examples of the   *)
(* specification, the pinyin of the ideograph: "ni" stands for U+4F60).    *)
(* Times are integer milliseconds.  A duration is kept in milliseconds     *)
(* too: the code's (duration_ms / 1000.0) + 0.3 seconds is duration_ms +   *)
(* 300, 2.0 is 2000 and 5.0 is 5000.  A scene's 'duration' key is absent   *)
(* (<<>>) until the code assigns it (<<ms>>).                              *)
(* Scenes are numbered from 1 (the code logs them as i+1); timestamp       *)
(* indices and the cursor are 0-based as in the code, so                   *)
(* word_timestamps[j] of the code is word_timestamps[j + 1] here.          *)
(***************************************************************************)
EXTENDS Integers, Sequences, FiniteSets, TLC

VARIABLES
    scenes,                 \* the scene list (mutated in place)
    word_timestamps,        \* the word-level timestamp list
    timestamp_cursor,       \* main.py:45
    i,                      \* number of scenes the outer loop has finished
    j,                      \* index of the inner loop, 0-based
    narration,              \* main.py:48
    clean_narration_chars,  \* main.py:53, consumed at :86
    scene_start_time,       \* main.py:60
    scene_end_time,         \* main.py:61
    start_found,            \* main.py:62
    words_matched_in_scene, \* main.py:63
    pc,                     \* "loop" | "scan" | "post" | "done"
    log,                    \* what logging.* was called with, in order
    hist,                   \* history: per scene, what its scan did
    assigned,               \* history: the writes of scene['duration'], in order
    call,                   \* the arguments as passed, and which call this is
    main,                   \* main(): its position, its locals, what it called
    whisper_model,          \* audio_producer.py:31, the module's cached model
    whisper_calls           \* history: the calls of generate_timestamps_from_audio

vars == <<scenes, word_timestamps, timestamp_cursor, i, j, narration,
          clean_narration_chars, scene_start_time, scene_end_time,
          start_found, words_matched_in_scene, pc, log, hist, assigned, call,
          main, whisper_model, whisper_calls>>

\* what calculate_scene_durations has no access to: the locals of main and
\* the globals of audio_producer
pipeline == <<main, whisper_model, whisper_calls>>

\* what main and audio_producer have no access to: the locals of
\* calculate_scene_durations, and the histories of its run
aligner == <<scenes, word_timestamps, timestamp_cursor, i, j, narration,
             clean_narration_chars, scene_start_time, scene_end_time,
             start_found, words_matched_in_scene, pc, log, hist, assigned, call>>

-----------------------------------------------------------------------------
(* Bounds of the generated inputs.                                         *)

MaxScenes == 2

MaxTimestamps == 3

-----------------------------------------------------------------------------
(* Characters and str methods.                                             *)

\* str.isalnum on one character: letters, digits and CJK ideographs.
AlnumChars ==
    {"a", "b", "A", "B", "C", "D", "E", "X", "Y", "Z",
     "ni", "hao", "shi", "jie",
     "wan", "quan", "bu", "xiang", "guan", "de", "nei", "rong"}

\* str.strip removes these from both ends.
WhitespaceChars == {" "}

IsAlnum(c) == c \in AlnumChars

RECURSIVE FilterAlnum(_)
\* "".join(filter(str.isalnum, s)) as a character list (main.py:53, :69)
FilterAlnum(s) ==
    IF s = <<>> THEN <<>>
    ELSE IF IsAlnum(Head(s)) THEN <<Head(s)>> \o FilterAlnum(Tail(s))
         ELSE FilterAlnum(Tail(s))

RECURSIVE LStrip(_)
LStrip(s) ==
    IF s # <<>> /\ Head(s) \in WhitespaceChars THEN LStrip(Tail(s)) ELSE s

RECURSIVE RStrip(_)
RStrip(s) ==
    IF s # <<>> /\ s[Len(s)] \in WhitespaceChars
    THEN RStrip(SubSeq(s, 1, Len(s) - 1))
    ELSE s

\* str.strip()
Strip(s) == RStrip(LStrip(s))

\* Mutant: a substring test (p in s) instead of a prefix test.
StartsWithAnywhere(s, p) ==
    \E k \in 0..(Len(s) - Len(p)) : SubSeq(s, k + 1, k + Len(p)) = p

\* str.startswith (main.py:75)
StartsWith(s, p) == Len(p) <= Len(s) /\ SubSeq(s, 1, Len(p)) = p

\* Mutant: one character is consumed whatever the length of the word.
DelPrefixOne(s, n) == SubSeq(s, 2, Len(s))

\* del chars[:n] (main.py:86)
DelPrefix(s, n) == SubSeq(s, n + 1, Len(s))

-----------------------------------------------------------------------------
(* Constants of the duration policy.                                       *)

\* main.py:106, 5.0 s
UnmatchedDuration == 5000

\* Mutant: the two fallbacks mixed up.
NoNarrationDurationAsUnmatched == UnmatchedDuration

\* main.py:56, 2.0 s
NoNarrationDuration == 2000

\* main.py:102, the 0.3 s buffer
BufferMs == 300

\* Mutant: the operands of the subtraction swapped.
MatchedDurationReversed(start, end) == (start - end) + BufferMs

\* Mutant: the trailing buffer forgotten.
MatchedDurationNoBuffer(start, end) == end - start

\* main.py:101-102
MatchedDuration(start, end) == (end - start) + BufferMs

\* Mutant: the last matched word is left for the next scene.
CursorAfterFullMatchSame(jj) == jj

\* main.py:90
CursorAfterFullMatch(jj) == jj + 1

\* Mutant: the search restarts from the top of the list after a break.
CursorAfterBreakRewind(jj) == 0

\* Mutant: the failing word is consumed.
CursorAfterBreakPast(jj) == jj + 1

\* main.py:96
CursorAfterBreak(jj) == jj

-----------------------------------------------------------------------------
(* Inputs.                                                                 *)

\* A scene as the content planner hands it over.  The visual prompt is opaque
\* to the aligner; it is numbered so that scenes with equal narration differ.
Scene(text) == [narration |-> text, visual_prompt |-> <<"prompt", 1>>, duration |-> <<>>]

Word(text, start, end) == [text |-> text, start |-> start, end |-> end]

\* Narrations of the generated scene lists: punctuation and whitespace only,
\* one word, two words with punctuation and surrounding whitespace, three
\* characters.
GenNarrations ==
    { <<" ", ",">>, <<"a">>, <<" ", "a", ",", "b", " ">>, <<"a", "b", "a">> }

\* Texts of the generated timestamps (Whisper words often carry a leading
\* space; a pure punctuation token normalizes to nothing).
GenWords == { <<"a">>, <<" ", "b">>, <<"a", "b">>, <<",">> }

\* Two time tracks, by 0-based index: one that satisfies the data model
\* (start <= end, starts nondecreasing), one that does not.
TimeTracks == {"ordered", "disordered"}

TrackStart(track, idx) ==
    IF track = "ordered" THEN 1000 * idx ELSE 9000 - 1000 * idx

TrackEnd(track, idx) ==
    IF track = "ordered" THEN 1000 * idx + 400 ELSE 8900 - 1000 * idx

SeqsUpTo(S, n) == UNION { [1..k -> S] : k \in 0..n }

GenSceneLists ==
    { [k \in DOMAIN ns |-> [Scene(ns[k]) EXCEPT !.visual_prompt = <<"prompt", k>>]] :
        ns \in SeqsUpTo(GenNarrations, MaxScenes) }

GenTimestampLists ==
    { [k \in DOMAIN ws |-> Word(ws[k], TrackStart(tr, k - 1), TrackEnd(tr, k - 1))] :
        ws \in SeqsUpTo(GenWords, MaxTimestamps), tr \in TimeTracks }

GenInputs ==
    { [scenes |-> ss, timestamps |-> ts] :
        ss \in GenSceneLists, ts \in GenTimestampLists }

\* The worked examples of the specification's section 8.
NiHaoShiJie == <<"ni", "hao", "shi", "jie">>

NiHaoTimestamps ==
    << Word(<<"ni", "hao">>, 1000, 1400), Word(<<"shi", "jie">>, 1400, 2000) >>

PunctuationOnly == <<" ", " ", " ", "fullwidth_comma", "ideographic_comma", "ideographic_stop">>

Unrelated == <<"wan", "quan", "bu", "xiang", "guan", "de", "nei", "rong">>

ABCDE == <<"A", "B", "C", "D", "E">>

ABCDETimestamps ==
    << Word(<<"A", "B", "C">>, 0, 500), Word(<<"X", "Y", "Z">>, 500, 700),
       Word(<<"D", "E">>, 700, 900) >>

ExactMatchExample == [scenes |-> <<Scene(NiHaoShiJie)>>, timestamps |-> NiHaoTimestamps]

EmptyNarrationExample == [scenes |-> <<Scene(PunctuationOnly)>>, timestamps |-> NiHaoTimestamps]

NoMatchExample == [scenes |-> <<Scene(Unrelated)>>, timestamps |-> NiHaoTimestamps]

PartialMatchExample == [scenes |-> <<Scene(ABCDE)>>, timestamps |-> ABCDETimestamps]

ExampleInputs ==
    { ExactMatchExample, EmptyNarrationExample, NoMatchExample, PartialMatchExample }

Inputs == GenInputs \cup ExampleInputs

-----------------------------------------------------------------------------
(* State after lines 43-45 of calculate_scene_durations.                   *)

Unset == -1

\* Python's None
None == "None"

\* the {} that generate_content_plan returns when it fails; a dict is its
\* set of keys and the value of its 'scenes' key
NoPlan == [keys |-> {}, scenes |-> <<>>]

\* main() is not on the stack: the function under study was called directly
NotRunning ==
    [pc |-> "not_running", content_plan |-> NoPlan, full_narration |-> <<>>,
     audio_path |-> None, word_timestamps |-> <<>>,
     scenes_with_duration |-> <<>>, i |-> 0, production_list |-> <<>>,
     exit_status |-> Unset, error |-> None, invoked |-> <<>>,
     cleaned |-> FALSE]

NoHistory ==
    [begun |-> FALSE, finished |-> FALSE, cursor_in |-> 0, cursor_out |-> 0,
     matched |-> {}, examined |-> {}, remainder |-> <<>>, writes |-> 0,
     reads |-> 0]

\* One logging call: its level, the scene number in the message, which
\* message it is, and the text the message quotes.
LogEntry(level, scene, what, text) ==
    [level |-> level, scene |-> scene, what |-> what, text |-> text]

Init ==
    \E in \in Inputs :
        /\ scenes = in.scenes
        /\ word_timestamps = in.timestamps
        /\ timestamp_cursor = 0
        /\ i = 0
        /\ j = 0
        /\ narration = <<>>
        /\ clean_narration_chars = <<>>
        /\ scene_start_time = Unset
        /\ scene_end_time = Unset
        /\ start_found = FALSE
        /\ words_matched_in_scene = 0
        /\ pc = "loop"
        /\ log = << LogEntry("info", 0, "begin", <<>>) >>
        /\ hist = [k \in 1..Len(in.scenes) |-> NoHistory]
        /\ assigned = <<>>
        /\ call = [input |-> in, run |-> "first", first |-> <<>>]
        /\ main = NotRunning
        /\ whisper_model = None
        /\ whisper_calls = <<>>

-----------------------------------------------------------------------------
(* The outer loop, main.py:47-58 and :60-63.                               *)

NumScenes == Len(scenes)

NumTimestamps == Len(word_timestamps)

\* scene.get('narration', '').strip() of the scene the loop is at
NextNarration == Strip(scenes[i + 1].narration)

Finish(h, cursor, rest) ==
    [h EXCEPT !.finished = TRUE, !.cursor_out = cursor, !.remainder = rest,
              !.writes = @ + 1]

\* Mutant: the continue of main.py:58 is missing, so a scene without
\* narration goes on to the scan and to the assignment after it.
SceneEmptyFallsThrough ==
    /\ pc = "loop"
    /\ i < NumScenes
    /\ FilterAlnum(NextNarration) = <<>>
    /\ narration' = NextNarration
    /\ clean_narration_chars' = <<>>
    /\ scenes' = [scenes EXCEPT ![i + 1].duration = <<NoNarrationDuration>>]
    /\ log' = Append(log, LogEntry("warning", i + 1, "no_narration", <<>>))
    /\ hist' = [hist EXCEPT ![i + 1] =
                  [@ EXCEPT !.begun = TRUE, !.cursor_in = timestamp_cursor,
                            !.writes = @ + 1]]
    /\ scene_start_time' = Unset
    /\ scene_end_time' = Unset
    /\ start_found' = FALSE
    /\ words_matched_in_scene' = 0
    /\ j' = timestamp_cursor
    /\ pc' = "scan"
    /\ assigned' = Append(assigned, [scene |-> i + 1, kind |-> "no_narration"])
    /\ UNCHANGED call
    /\ UNCHANGED <<word_timestamps, timestamp_cursor, i>>
    /\ UNCHANGED pipeline

\* main.py:55-58: no narration left after cleaning; 2.0 s, warn, continue
SceneEmpty ==
    /\ pc = "loop"
    /\ i < NumScenes
    /\ FilterAlnum(NextNarration) = <<>>
    /\ narration' = NextNarration
    /\ clean_narration_chars' = <<>>
    /\ scenes' = [scenes EXCEPT ![i + 1].duration = <<NoNarrationDuration>>]
    /\ log' = Append(log, LogEntry("warning", i + 1, "no_narration", <<>>))
    /\ hist' = [hist EXCEPT ![i + 1] =
                  Finish([@ EXCEPT !.begun = TRUE, !.cursor_in = timestamp_cursor],
                         timestamp_cursor, <<>>)]
    /\ i' = i + 1
    /\ assigned' = Append(assigned, [scene |-> i + 1, kind |-> "no_narration"])
    /\ UNCHANGED call
    /\ UNCHANGED <<word_timestamps, timestamp_cursor, j, scene_start_time,
                   scene_end_time, start_found, words_matched_in_scene, pc>>
    /\ UNCHANGED pipeline

\* Mutant: every scene searches the timestamp list from its first entry.
SceneBeginFromStart ==
    /\ pc = "loop"
    /\ i < NumScenes
    /\ FilterAlnum(NextNarration) # <<>>
    /\ narration' = NextNarration
    /\ clean_narration_chars' = FilterAlnum(NextNarration)
    /\ scene_start_time' = Unset
    /\ scene_end_time' = Unset
    /\ start_found' = FALSE
    /\ words_matched_in_scene' = 0
    /\ j' = 0
    /\ hist' = [hist EXCEPT ![i + 1].begun = TRUE,
                            ![i + 1].cursor_in = timestamp_cursor]
    /\ pc' = "scan"
    /\ UNCHANGED <<assigned, call>>
    /\ UNCHANGED <<scenes, word_timestamps, timestamp_cursor, i, log>>
    /\ UNCHANGED pipeline

\* main.py:48-53 and :60-66: set up the scan of a scene that has narration
SceneBegin ==
    /\ pc = "loop"
    /\ i < NumScenes
    /\ FilterAlnum(NextNarration) # <<>>
    /\ narration' = NextNarration
    /\ clean_narration_chars' = FilterAlnum(NextNarration)
    /\ scene_start_time' = Unset
    /\ scene_end_time' = Unset
    /\ start_found' = FALSE
    /\ words_matched_in_scene' = 0
    /\ j' = timestamp_cursor
    /\ hist' = [hist EXCEPT ![i + 1].begun = TRUE,
                            ![i + 1].cursor_in = timestamp_cursor]
    /\ pc' = "scan"
    /\ UNCHANGED <<assigned, call>>
    /\ UNCHANGED <<scenes, word_timestamps, timestamp_cursor, i, log>>
    /\ UNCHANGED pipeline

-----------------------------------------------------------------------------
(* The inner loop, main.py:66-97: one action per way an iteration goes.    *)

current_word_info == word_timestamps[j + 1]

\* main.py:69
clean_word_text_chars == FilterAlnum(current_word_info.text)

Examine(h) == [h EXCEPT !.examined = @ \cup {j}, !.reads = @ + 1]

\* range(timestamp_cursor, len(word_timestamps)) is exhausted
ScanExhausted ==
    /\ pc = "scan"
    /\ j >= NumTimestamps
    /\ pc' = "post"
    /\ UNCHANGED <<assigned, call>>
    /\ UNCHANGED <<scenes, word_timestamps, timestamp_cursor, i, j, narration,
                   clean_narration_chars, scene_start_time, scene_end_time,
                   start_found, words_matched_in_scene, log, hist>>
    /\ UNCHANGED pipeline

\* Mutant: the test of main.py:71 is missing; the empty word is a prefix of
\* anything, so it counts as a match and sets the scene's times.
ScanSkipMatches ==
    /\ pc = "scan"
    /\ j < NumTimestamps
    /\ clean_word_text_chars = <<>>
    /\ scene_start_time' =
          IF ~start_found THEN current_word_info.start ELSE scene_start_time
    /\ start_found' = TRUE
    /\ scene_end_time' = current_word_info.end
    /\ words_matched_in_scene' = words_matched_in_scene + 1
    /\ j' = j + 1
    /\ hist' = [hist EXCEPT ![i + 1] = [Examine(@) EXCEPT !.matched = @ \cup {j}]]
    /\ UNCHANGED <<assigned, call>>
    /\ UNCHANGED <<scenes, word_timestamps, timestamp_cursor, i, narration,
                   clean_narration_chars, pc, log>>
    /\ UNCHANGED pipeline

\* Mutant: a skipped timestamp is deleted from the list.
ScanSkipDeletes ==
    /\ pc = "scan"
    /\ j < NumTimestamps
    /\ clean_word_text_chars = <<>>
    /\ word_timestamps' = SubSeq(word_timestamps, 1, j)
                            \o SubSeq(word_timestamps, j + 2, NumTimestamps)
    /\ hist' = [hist EXCEPT ![i + 1] = Examine(@)]
    /\ UNCHANGED <<assigned, call>>
    /\ UNCHANGED <<scenes, timestamp_cursor, i, j, narration,
                   clean_narration_chars, scene_start_time, scene_end_time,
                   start_found, words_matched_in_scene, pc, log>>
    /\ UNCHANGED pipeline

\* main.py:71-72: an empty or pure punctuation timestamp is skipped
ScanSkip ==
    /\ pc = "scan"
    /\ j < NumTimestamps
    /\ clean_word_text_chars = <<>>
    /\ j' = j + 1
    /\ hist' = [hist EXCEPT ![i + 1] = Examine(@)]
    /\ UNCHANGED <<assigned, call>>
    /\ UNCHANGED <<scenes, word_timestamps, timestamp_cursor, i, narration,
                   clean_narration_chars, scene_start_time, scene_end_time,
                   start_found, words_matched_in_scene, pc, log>>
    /\ UNCHANGED pipeline

\* Mutant: after a match that leaves narration, the scan goes back to the
\* cursor.
ScanMatchRescans ==
    /\ pc = "scan"
    /\ j < NumTimestamps
    /\ clean_word_text_chars # <<>>
    /\ StartsWith(clean_narration_chars, clean_word_text_chars)
    /\ scene_start_time' =
          IF ~start_found THEN current_word_info.start ELSE scene_start_time
    /\ start_found' = TRUE
    /\ scene_end_time' = current_word_info.end
    /\ words_matched_in_scene' = words_matched_in_scene + 1
    /\ clean_narration_chars' =
          DelPrefix(clean_narration_chars, Len(clean_word_text_chars))
    /\ hist' = [hist EXCEPT ![i + 1] = [Examine(@) EXCEPT !.matched = @ \cup {j}]]
    /\ IF clean_narration_chars' = <<>>
       THEN /\ timestamp_cursor' = CursorAfterFullMatch(j)
            /\ pc' = "post"
            /\ j' = j
       ELSE /\ j' = timestamp_cursor
            /\ UNCHANGED <<timestamp_cursor, pc>>
    /\ UNCHANGED <<assigned, call>>
    /\ UNCHANGED <<scenes, word_timestamps, i, narration, log>>
    /\ UNCHANGED pipeline

\* main.py:75-91: the word is a prefix of what is left of the narration
ScanMatch ==
    /\ pc = "scan"
    /\ j < NumTimestamps
    /\ clean_word_text_chars # <<>>
    /\ StartsWith(clean_narration_chars, clean_word_text_chars)
    /\ scene_start_time' =
          IF ~start_found THEN current_word_info.start ELSE scene_start_time
    /\ start_found' = TRUE
    /\ scene_end_time' = current_word_info.end
    /\ words_matched_in_scene' = words_matched_in_scene + 1
    /\ clean_narration_chars' =
          DelPrefix(clean_narration_chars, Len(clean_word_text_chars))
    /\ hist' = [hist EXCEPT ![i + 1] = [Examine(@) EXCEPT !.matched = @ \cup {j}]]
    /\ IF clean_narration_chars' = <<>>
       THEN /\ timestamp_cursor' = CursorAfterFullMatch(j)
            /\ pc' = "post"
            /\ j' = j
       ELSE /\ j' = j + 1
            /\ UNCHANGED <<timestamp_cursor, pc>>
    /\ UNCHANGED <<assigned, call>>
    /\ UNCHANGED <<scenes, word_timestamps, i, narration, log>>
    /\ UNCHANGED pipeline

\* Mutant: any word that is not a prefix ends the scan, matched or not.
ScanMismatchAlwaysBreaks ==
    /\ pc = "scan"
    /\ j < NumTimestamps
    /\ clean_word_text_chars # <<>>
    /\ ~StartsWith(clean_narration_chars, clean_word_text_chars)
    /\ hist' = [hist EXCEPT ![i + 1] = Examine(@)]
    /\ log' = Append(log, LogEntry("warning", i + 1, "partial_match",
                                   clean_narration_chars))
    /\ timestamp_cursor' = CursorAfterBreak(j)
    /\ pc' = "post"
    /\ UNCHANGED <<assigned, call>>
    /\ UNCHANGED <<scenes, word_timestamps, i, j, narration, clean_narration_chars,
                   scene_start_time, scene_end_time, start_found,
                   words_matched_in_scene>>
    /\ UNCHANGED pipeline

\* main.py:92-97: the word is not a prefix of what is left
ScanMismatch ==
    /\ pc = "scan"
    /\ j < NumTimestamps
    /\ clean_word_text_chars # <<>>
    /\ ~StartsWith(clean_narration_chars, clean_word_text_chars)
    /\ hist' = [hist EXCEPT ![i + 1] = Examine(@)]
    /\ IF start_found
       THEN /\ log' = Append(log, LogEntry("warning", i + 1, "partial_match",
                                           clean_narration_chars))
            /\ timestamp_cursor' = CursorAfterBreak(j)
            /\ pc' = "post"
            /\ j' = j
       ELSE /\ j' = j + 1
            /\ UNCHANGED <<log, timestamp_cursor, pc>>
    /\ UNCHANGED <<assigned, call>>
    /\ UNCHANGED <<scenes, word_timestamps, i, narration, clean_narration_chars,
                   scene_start_time, scene_end_time, start_found,
                   words_matched_in_scene>>
    /\ UNCHANGED pipeline

-----------------------------------------------------------------------------
(* After the scan, main.py:99-107, and the return, main.py:109.            *)

\* Mutant: the matched duration is added to the duration the scene carries.
SceneMatchedAccumulates ==
    /\ pc = "post"
    /\ start_found
    /\ scenes' = [scenes EXCEPT ![i + 1].duration =
                    IF @ = <<>>
                    THEN <<MatchedDuration(scene_start_time, scene_end_time)>>
                    ELSE <<@[1] + MatchedDuration(scene_start_time, scene_end_time)>>]
    /\ log' = Append(log, LogEntry("info", i + 1, "duration_computed", <<>>))
    /\ hist' = [hist EXCEPT ![i + 1] =
                  Finish(@, timestamp_cursor, clean_narration_chars)]
    /\ i' = i + 1
    /\ pc' = "loop"
    /\ assigned' = Append(assigned, [scene |-> i + 1, kind |-> "matched"])
    /\ UNCHANGED call
    /\ UNCHANGED <<word_timestamps, timestamp_cursor, j, narration,
                   clean_narration_chars, scene_start_time, scene_end_time,
                   start_found, words_matched_in_scene>>
    /\ UNCHANGED pipeline

\* main.py:99-103
SceneMatched ==
    /\ pc = "post"
    /\ start_found
    /\ scenes' = [scenes EXCEPT ![i + 1].duration =
                    <<MatchedDuration(scene_start_time, scene_end_time)>>]
    /\ log' = Append(log, LogEntry("info", i + 1, "duration_computed", <<>>))
    /\ hist' = [hist EXCEPT ![i + 1] =
                  Finish(@, timestamp_cursor, clean_narration_chars)]
    /\ i' = i + 1
    /\ pc' = "loop"
    /\ assigned' = Append(assigned, [scene |-> i + 1, kind |-> "matched"])
    /\ UNCHANGED call
    /\ UNCHANGED <<word_timestamps, timestamp_cursor, j, narration,
                   clean_narration_chars, scene_start_time, scene_end_time,
                   start_found, words_matched_in_scene>>
    /\ UNCHANGED pipeline

\* Mutant: an unmatched scene raises instead of falling back.
SceneUnmatchedRaises ==
    /\ pc = "post"
    /\ ~start_found
    /\ pc' = "raised"
    /\ UNCHANGED <<assigned, call>>
    /\ UNCHANGED <<scenes, word_timestamps, timestamp_cursor, i, j, narration,
                   clean_narration_chars, scene_start_time, scene_end_time,
                   start_found, words_matched_in_scene, log, hist>>
    /\ UNCHANGED pipeline

\* main.py:104-107
SceneUnmatched ==
    /\ pc = "post"
    /\ ~start_found
    /\ scenes' = [scenes EXCEPT ![i + 1].duration = <<UnmatchedDuration>>]
    /\ log' = Append(log, LogEntry("error", i + 1, "no_match", narration))
    /\ hist' = [hist EXCEPT ![i + 1] =
                  Finish(@, timestamp_cursor, clean_narration_chars)]
    /\ i' = i + 1
    /\ pc' = "loop"
    /\ assigned' = Append(assigned, [scene |-> i + 1, kind |-> "unmatched"])
    /\ UNCHANGED call
    /\ UNCHANGED <<word_timestamps, timestamp_cursor, j, narration,
                   clean_narration_chars, scene_start_time, scene_end_time,
                   start_found, words_matched_in_scene>>
    /\ UNCHANGED pipeline

\* Mutant: the scenes that matched nothing are left out of the result.
ReturnDropsUnmatched ==
    /\ pc = "loop"
    /\ i >= NumScenes
    /\ pc' = "done"
    /\ scenes' = SelectSeq(scenes, LAMBDA sc : sc.duration # <<UnmatchedDuration>>)
    /\ UNCHANGED <<assigned, call>>
    /\ UNCHANGED <<word_timestamps, timestamp_cursor, i, j, narration,
                   clean_narration_chars, scene_start_time, scene_end_time,
                   start_found, words_matched_in_scene, log, hist>>
    /\ UNCHANGED pipeline

\* main.py:109
Return ==
    /\ pc = "loop"
    /\ i >= NumScenes
    /\ pc' = "done"
    /\ UNCHANGED <<assigned, call>>
    /\ UNCHANGED <<scenes, word_timestamps, timestamp_cursor, i, j, narration,
                   clean_narration_chars, scene_start_time, scene_end_time,
                   start_found, words_matched_in_scene, log, hist>>
    /\ UNCHANGED pipeline

Next ==
    \/ SceneEmpty
    \/ SceneBegin
    \/ ScanExhausted
    \/ ScanSkip
    \/ ScanMatch
    \/ ScanMismatch
    \/ SceneMatched
    \/ SceneUnmatched
    \/ Return

Spec == Init /\ [][Next]_vars

\* The function runs to completion once called: nothing suspends it.
FairSpec == Spec /\ WF_vars(Next)

-----------------------------------------------------------------------------
(* A second call of the function, after the first has returned: main.py    *)
(* lines 31-45 run again, on the arguments the caller chooses.             *)

Durations(ss) == [k \in DOMAIN ss |-> ss[k].duration]

\* the state after lines 43-45 of a call with arguments ss and ts
Enter(ss, ts, which) ==
    /\ scenes' = ss
    /\ word_timestamps' = ts
    /\ timestamp_cursor' = 0
    /\ i' = 0
    /\ j' = 0
    /\ narration' = <<>>
    /\ clean_narration_chars' = <<>>
    /\ scene_start_time' = Unset
    /\ scene_end_time' = Unset
    /\ start_found' = FALSE
    /\ words_matched_in_scene' = 0
    /\ pc' = "loop"
    /\ log' = Append(log, LogEntry("info", 0, "begin", <<>>))
    /\ hist' = [k \in DOMAIN ss |-> NoHistory]
    /\ assigned' = <<>>
    /\ call' = [call EXCEPT !.run = which, !.first = Durations(scenes)]

\* the same timestamps again, with the scenes as first passed or with the
\* scenes the first call returned (which carry its durations)
CallAgain ==
    /\ pc = "done"
    /\ call.run = "first"
    /\ \E ss \in {call.input.scenes, scenes} : Enter(ss, word_timestamps, "again")
    /\ UNCHANGED pipeline

\* the timestamps whose text is empty after cleaning, removed
WithoutNoise(ts) == SelectSeq(ts, LAMBDA w : FilterAlnum(w.text) # <<>>)

\* the scenes as first passed, against the timestamps without the noise
CallWithoutNoise ==
    /\ pc = "done"
    /\ call.run = "first"
    /\ Enter(call.input.scenes, WithoutNoise(word_timestamps), "without_noise")
    /\ UNCHANGED pipeline

NextReplay ==
    \/ Next
    \/ CallAgain
    \/ CallWithoutNoise

ReplaySpec == Init /\ [][NextReplay]_vars

-----------------------------------------------------------------------------
(* audio_producer.py: the cached Whisper model, lines 31-50, and            *)
(* generate_timestamps_from_audio, lines 111-151.                          *)

MaxCalls == 3

\* what load_model('base') returns
WhisperModel == "base"

\* What the body of the if of _initialize_whisper does when it is entered:
\* the import of line 40 raises, load_model of line 43 raises, or it returns.
LoadOutcomes == { "import_error", "load_error", "loaded" }

\* Mutant: the test of audio_producer.py:36 is missing, so every call
\* imports and loads.
initialize_whisper_eager(model, lo) ==
    [ attempted  |-> TRUE,
      load_model |-> CASE lo = "import_error" -> "not_invoked"
                       [] lo = "load_error" -> "raised"
                       [] OTHER -> "returned",
      model      |-> IF lo = "loaded" THEN WhisperModel ELSE model,
      raised     |-> lo # "loaded" ]

\* _initialize_whisper, audio_producer.py:33-50, on the cached model `model`:
\* whether the if was entered, what became of load_model, the global after
\* the call, and whether the call raised (lines 47 and 50 re-raise).
initialize_whisper(model, lo) ==
    IF model = None
    THEN [ attempted  |-> TRUE,
           load_model |-> CASE lo = "import_error" -> "not_invoked"
                            [] lo = "load_error" -> "raised"
                            [] OTHER -> "returned",
           model      |-> IF lo = "loaded" THEN WhisperModel ELSE None,
           raised     |-> lo # "loaded" ]
    ELSE [ attempted |-> FALSE, load_model |-> "not_invoked",
           model |-> model, raised |-> FALSE ]

\* One word of result.segments: stable-ts gives the text as recognised and
\* the times in seconds; here the times are in microseconds.
RawWord(w) ==
    [word |-> w.text, start |-> 1000 * w.start + 250, end |-> 1000 * w.end + 250]

\* audio_producer.py:135-140: strip the text, int(seconds * 1000)
TimestampOf(raw) ==
    [text |-> Strip(raw.word), start |-> raw.start \div 1000,
     end |-> raw.end \div 1000]

\* audio_producer.py:131-140
TimestampsOf(raws) == [k \in DOMAIN raws |-> TimestampOf(raws[k])]

\* What whisper_model.align does: it raises, or it returns words.
AlignOutcomes(wordlists) ==
    { [raised |-> TRUE, words |-> <<>>] } \cup
    { [raised |-> FALSE, words |-> [k \in DOMAIN ws |-> RawWord(ws[k])]] :
        ws \in wordlists }

\* audio_producer.py:111-151, the value returned: [] from the handler of
\* line 149 and from line 144, the timestamps otherwise
ReturnedTimestamps(init, al) ==
    IF init.raised \/ al.raised THEN <<>> ELSE TimestampsOf(al.words)

\* the level of the call's last logging line: audio_producer.py:150, :143
\* or :146
LoggedLast(init, al) ==
    CASE init.raised \/ al.raised -> "error"
      [] al.words = <<>> -> "warning"
      [] OTHER -> "info"

generate_timestamps_from_audio(lo, al) ==
    LET init == initialize_whisper(whisper_model, lo) IN
    /\ whisper_model' = init.model
    /\ whisper_calls' = Append(whisper_calls,
          [ model_before |-> whisper_model,
            attempted    |-> init.attempted,
            load_model   |-> init.load_model,
            model_after  |-> init.model,
            returned     |-> ReturnedTimestamps(init, al),
            logged       |-> LoggedLast(init, al) ])

\* the lists of words of the specification's examples, and no word at all
ExampleWordLists == { <<>>, NiHaoTimestamps, ABCDETimestamps }

\* A caller (main, or the module's own test entry of lines 154-189) calls
\* the function; the process lives on and may call it again.
TimestampsCall ==
    /\ main.pc = "not_running"
    /\ pc = "idle"
    /\ Len(whisper_calls) < MaxCalls
    /\ \E lo \in LoadOutcomes, al \in AlignOutcomes(ExampleWordLists) :
          generate_timestamps_from_audio(lo, al)
    /\ UNCHANGED aligner
    /\ UNCHANGED main

\* No call of calculate_scene_durations is in progress.
Idle ==
    /\ scenes = <<>>
    /\ word_timestamps = <<>>
    /\ timestamp_cursor = 0
    /\ i = 0
    /\ j = 0
    /\ narration = <<>>
    /\ clean_narration_chars = <<>>
    /\ scene_start_time = Unset
    /\ scene_end_time = Unset
    /\ start_found = FALSE
    /\ words_matched_in_scene = 0
    /\ pc = "idle"
    /\ log = <<>>
    /\ hist = <<>>
    /\ assigned = <<>>
    /\ call = [input |-> [scenes |-> <<>>, timestamps |-> <<>>],
               run |-> "none", first |-> <<>>]

\* audio_producer has been imported (line 31) and nothing has called it
WhisperInit ==
    /\ Idle
    /\ main = NotRunning
    /\ whisper_model = None
    /\ whisper_calls = <<>>

NextWhisper == TimestampsCall

WhisperSpec == WhisperInit /\ [][NextWhisper]_vars

-----------------------------------------------------------------------------
(* main(), src/main.py:112-240, from the try of line 143 on: the input     *)
(* file exists and the directories are made.  main.pc is where main is:    *)
(* "plan", "narration", "audio", "timestamps", "align", "aligning",        *)
(* "images", "finally", "exited".  main.invoked is the history of the      *)
(* calls main made, in order, each with what became of it.                 *)

\* temp_assets_dir / <uuid>.mp3, audio_producer.py:93-94
AudioPath == "speech.mp3"

\* the default of scene.get('duration', 2.0), main.py:208
DefaultDuration == 2000

\* The scene lists a content plan may hold: generated ones, the empty list
\* among them, and those of the specification's examples.
PlannedSceneLists == GenSceneLists \cup { in.scenes : in \in ExampleInputs }

\* content_generator.py:17-97 returns {} or a dict whose 'scenes' is a list
ContentPlans ==
    { NoPlan } \cup { [keys |-> {"scenes"}, scenes |-> ss] : ss \in PlannedSceneLists }

\* what the aligner of Whisper may find in the audio
SpokenWordLists == GenTimestampLists \cup { in.timestamps : in \in ExampleInputs }

Invoke(m, stage, outcome) ==
    [m EXCEPT !.invoked = Append(@, [stage |-> stage, outcome |-> outcome])]

\* sys.exit(1): SystemExit is no Exception, so the handler of main.py:229
\* lets it pass and the finally of line 233 runs next
Exit1(m, why) == [m EXCEPT !.pc = "finally", !.exit_status = 1, !.error = why]

\* main.py:145-153
GenerateContentPlan ==
    /\ main.pc = "plan"
    /\ \E loaded \in BOOLEAN, plan \in ContentPlans :
          main' =
            IF ~loaded
            THEN \* open or json.load raises: the handler of lines 229-231
                 Exit1(main, "unexpected")
            ELSE IF plan.keys = {} \/ "scenes" \notin plan.keys \/ plan.scenes = <<>>
            THEN Exit1(Invoke(main, "content_plan", "failed"), "no_scenes")
            ELSE [Invoke(main, "content_plan", "ok") EXCEPT
                     !.content_plan = plan, !.pc = "narration"]
    /\ UNCHANGED aligner
    /\ UNCHANGED <<whisper_model, whisper_calls>>

\* " ".join(...) of main.py:157
RECURSIVE JoinNarrations(_)
JoinNarrations(ss) ==
    IF ss = <<>> THEN <<>>
    ELSE IF Len(ss) = 1 THEN ss[1].narration
    ELSE ss[1].narration \o <<" ">> \o JoinNarrations(Tail(ss))

\* main.py:157-161
FullNarration ==
    /\ main.pc = "narration"
    /\ LET full_narration == Strip(JoinNarrations(main.content_plan.scenes)) IN
          main' = IF full_narration = <<>>
                  THEN Exit1(main, "no_narration")
                  ELSE [main EXCEPT !.full_narration = full_narration,
                                    !.pc = "audio"]
    /\ UNCHANGED aligner
    /\ UNCHANGED <<whisper_model, whisper_calls>>

\* main.py:164-171; generate_audio_only returns a path or None
GenerateAudioOnly ==
    /\ main.pc = "audio"
    /\ \E audio_path \in { None, AudioPath } :
          main' = IF audio_path = None
                  THEN Exit1(Invoke(main, "audio", "failed"), "no_audio")
                  ELSE [Invoke(main, "audio", "ok") EXCEPT
                           !.audio_path = audio_path, !.pc = "timestamps"]
    /\ UNCHANGED aligner
    /\ UNCHANGED <<whisper_model, whisper_calls>>

\* Mutant: the test of main.py:178-180 is missing.
GenerateTimestampsUnchecked ==
    /\ main.pc = "timestamps"
    /\ \E lo \in LoadOutcomes, al \in AlignOutcomes(SpokenWordLists) :
          /\ generate_timestamps_from_audio(lo, al)
          /\ LET returned == whisper_calls'[Len(whisper_calls')].returned IN
                main' = [Invoke(main, "timestamps",
                                IF returned = <<>> THEN "failed" ELSE "ok") EXCEPT
                            !.word_timestamps = returned, !.pc = "align"]
    /\ UNCHANGED aligner

\* main.py:174-181
GenerateTimestamps ==
    /\ main.pc = "timestamps"
    /\ \E lo \in LoadOutcomes, al \in AlignOutcomes(SpokenWordLists) :
          /\ generate_timestamps_from_audio(lo, al)
          /\ LET returned == whisper_calls'[Len(whisper_calls')].returned IN
                main' = IF returned = <<>>
                        THEN Exit1(Invoke(main, "timestamps", "failed"),
                                   "no_timestamps")
                        ELSE [Invoke(main, "timestamps", "ok") EXCEPT
                                 !.word_timestamps = returned, !.pc = "align"]
    /\ UNCHANGED aligner

\* main.py:185, the call: lines 43-45 of calculate_scene_durations
CallAligner ==
    /\ main.pc = "align"
    /\ Enter(main.content_plan.scenes, main.word_timestamps, "first")
    /\ main' = [Invoke(main, "alignment", "ok") EXCEPT !.pc = "aligning"]
    /\ UNCHANGED <<whisper_model, whisper_calls>>

\* main.py:185 and :189, the return: the list returned is the list passed,
\* content_plan['scenes'], with its durations
AlignerReturned ==
    /\ main.pc = "aligning"
    /\ pc = "done"
    /\ main' = [main EXCEPT !.content_plan.scenes = scenes,
                            !.scenes_with_duration = scenes,
                            !.production_list = <<>>,
                            !.i = 0,
                            !.pc = "images"]
    /\ UNCHANGED aligner
    /\ UNCHANGED <<whisper_model, whisper_calls>>

\* image_processor.py:42: the parameters of create_scene_image that have
\* no default
CreateSceneImageRequired == { "image_prompt", "overlay_text", "output_filepath" }

\* main.py:196-200: the keyword arguments of the call
CreateSceneImageKeywords == { "image_prompt", "output_filepath" }

\* Python binds a call only if every parameter without a default is given;
\* otherwise the call raises TypeError and the body does not run.
Binds(required, given) == required \subseteq given

\* main.py:190-209, one turn of the loop for scene m.i + 1
SceneImage(m, success) ==
    LET scene == m.scenes_with_duration[m.i + 1] IN
    IF ~Binds(CreateSceneImageRequired, CreateSceneImageKeywords)
    THEN \* TypeError: the handler of lines 229-231
         Exit1(Invoke(m, "image", "type_error"), "unexpected")
    ELSE IF ~success
    THEN Exit1(Invoke(m, "image", "failed"), "image_failed")
    ELSE [Invoke(m, "image", "ok") EXCEPT
             !.production_list =
                 Append(@, [image_path |-> <<"scene", m.i + 1>>,
                            duration |-> IF scene.duration = <<>>
                                         THEN DefaultDuration
                                         ELSE scene.duration[1]]),
             !.i = @ + 1]

\* main.py:210-227, after the loop
AssembleVideo(m, success) ==
    IF ~success
    THEN Exit1(Invoke(m, "assembly", "failed"), "assembly_failed")
    ELSE [Invoke(m, "assembly", "ok") EXCEPT !.pc = "finally", !.exit_status = 0]

\* main.py:189-227: the loop over the scenes, and what follows it
Produce ==
    /\ main.pc = "images"
    /\ \E success \in BOOLEAN :
          main' = IF main.i < Len(main.scenes_with_duration)
                  THEN SceneImage(main, success)
                  ELSE AssembleVideo(main, success)
    /\ UNCHANGED aligner
    /\ UNCHANGED <<whisper_model, whisper_calls>>

\* main.py:233-240: shutil.rmtree removes the directory or raises OSError,
\* which is logged; then the process ends with main.exit_status
Finally ==
    /\ main.pc = "finally"
    /\ \E removed \in BOOLEAN :
          main' = [main EXCEPT !.cleaned = removed, !.pc = "exited"]
    /\ UNCHANGED aligner
    /\ UNCHANGED <<whisper_model, whisper_calls>>

\* main.py:143: the process has just started
PipelineInit ==
    /\ Idle
    /\ main = [NotRunning EXCEPT !.pc = "plan"]
    /\ whisper_model = None
    /\ whisper_calls = <<>>

NextPipeline ==
    \/ GenerateContentPlan
    \/ FullNarration
    \/ GenerateAudioOnly
    \/ GenerateTimestamps
    \/ CallAligner
    \/ Next
    \/ AlignerReturned
    \/ Produce
    \/ Finally

PipelineSpec == PipelineInit /\ [][NextPipeline]_vars

-----------------------------------------------------------------------------
(* Vocabulary of the properties.                                           *)

SceneIds == DOMAIN hist

TimestampIds == 0..(NumTimestamps - 1)

Min(S) == CHOOSE x \in S : \A y \in S : x <= y

Max(S) == CHOOSE x \in S : \A y \in S : x >= y

\* normalized text of the timestamp at 0-based index x
Tok(x) == FilterAlnum(word_timestamps[x + 1].text)

\* normalized narration of scene k
Norm(k) == FilterAlnum(scenes[k].narration)

\* indices lo..hi whose timestamp has text left after normalization
NonEmptyIds(lo, hi) == { x \in lo..hi : Tok(x) # <<>> }

RECURSIVE Concat(_, _)
\* normalized texts of the timestamps lo..hi, concatenated
Concat(lo, hi) == IF lo > hi THEN <<>> ELSE Tok(lo) \o Concat(lo + 1, hi)

RECURSIVE TotalLen(_)
TotalLen(S) ==
    IF S = {} THEN 0 ELSE LET x == Min(S) IN Len(Tok(x)) + TotalLen(S \ {x})

\* what is left of scene k's narration when index x is examined
RemainingAt(k, x) ==
    DelPrefix(Norm(k), TotalLen({ m \in hist[k].matched : m < x }))

\* p is a prefix of s, character by character
IsPrefix(p, s) == Len(p) <= Len(s) /\ \A n \in 1..Len(p) : s[n] = p[n]

Logged(level, k, what, text) ==
    \E n \in DOMAIN log : log[n] = LogEntry(level, k, what, text)

Done == pc = "done"

-----------------------------------------------------------------------------
(* C1: no timestamp index is matched by more than one scene: the sets of   *)
(* indices matched by any two scenes are disjoint.                         *)
NoSharedTimestamp ==
    \A k1 \in SceneIds : \A k2 \in SceneIds :
        k1 < k2 => hist[k1].matched \cap hist[k2].matched = {}

(* C2: every call terminates without raising, and on return every scene   *)
(* has a duration.                                                         *)
TerminatesAnnotated ==
    <>(Done /\ \A k \in DOMAIN scenes : scenes[k].duration # <<>>)

TerminatesAnnotatedWitness ==
    /\ Done
    /\ NumScenes >= 2
    /\ NumTimestamps = 0
    /\ \E k \in SceneIds : Norm(k) # <<>> /\ scenes[k].duration = <<UnmatchedDuration>>

(* C3: the cursor never decreases, a scene's scan reads only indices at or *)
(* after the cursor it started with, and no step reads an index below the  *)
(* cursor.                                                                 *)
CursorMonotone ==
    [][ /\ timestamp_cursor' >= timestamp_cursor
        /\ \A k \in SceneIds :
              /\ hist'[k].finished => hist'[k].cursor_out >= hist'[k].cursor_in
              /\ \A x \in hist'[k].examined :
                    /\ x >= hist'[k].cursor_in
                    /\ x \notin hist[k].examined => x >= timestamp_cursor ]_vars

CursorMonotoneWitness ==
    \E k \in SceneIds :
        /\ hist[k].cursor_in > 0
        /\ hist[k].examined # {}
        /\ hist[k].finished
        /\ hist[k].cursor_out > hist[k].cursor_in

(* C4: a scene that matched at least one timestamp gets the duration       *)
(* (end of the last matched - start of the first matched) + 300 ms.        *)
MatchedDurationFormula ==
    \A k \in SceneIds :
        (hist[k].finished /\ hist[k].matched # {}) =>
            scenes[k].duration =
                << word_timestamps[Max(hist[k].matched) + 1].end
                   - word_timestamps[Min(hist[k].matched) + 1].start + 300 >>

MatchedDurationWitness ==
    \E k \in SceneIds :
        /\ hist[k].finished
        /\ Cardinality(hist[k].matched) >= 2
        /\ hist[k].remainder # <<>>

(* C5: a scene whose narration has no alphanumeric character gets exactly  *)
(* 2.0 s, reads and matches no timestamp and leaves the cursor where it    *)
(* was, whatever the timestamps and the cursor.                            *)
EmptyNarrationDefault ==
    \A k \in SceneIds :
        (/\ hist[k].finished
         /\ \A n \in DOMAIN scenes[k].narration : ~IsAlnum(scenes[k].narration[n])) =>
            /\ scenes[k].duration = <<2000>>
            /\ hist[k].matched = {}
            /\ hist[k].examined = {}
            /\ hist[k].cursor_out = hist[k].cursor_in
            /\ (k = i /\ pc = "loop" => timestamp_cursor = hist[k].cursor_in)

EmptyNarrationWitness ==
    \E k \in SceneIds :
        /\ hist[k].finished
        /\ scenes[k].narration = <<" ", ",">>
        /\ hist[k].cursor_in > 0
        /\ hist[k].cursor_in < NumTimestamps

(* C6: a scene with narration of which no timestamp at or after the cursor *)
(* is a prefix gets exactly 5.0 s, an error naming its narration is        *)
(* logged, and the cursor is left where it was.                            *)
UnmatchedFallback ==
    \A k \in SceneIds :
        (/\ hist[k].finished
         /\ Norm(k) # <<>>
         /\ \A x \in TimestampIds :
               x >= hist[k].cursor_in =>
                   (Tok(x) = <<>> \/ ~IsPrefix(Tok(x), Norm(k)))) =>
            /\ scenes[k].duration = <<5000>>
            /\ hist[k].matched = {}
            /\ hist[k].cursor_out = hist[k].cursor_in
            /\ (k = i /\ pc = "loop" => timestamp_cursor = hist[k].cursor_in)
            /\ Logged("error", k, "no_match", Strip(scenes[k].narration))

UnmatchedFallbackWitness ==
    \E k \in SceneIds :
        /\ hist[k].finished
        /\ Norm(k) # <<>>
        /\ hist[k].matched = {}
        /\ hist[k].cursor_in > 0
        /\ NonEmptyIds(hist[k].cursor_in, NumTimestamps - 1) # {}

(* C7: whenever a scene matched at least one timestamp and narration is    *)
(* left over when its scan ends, for whatever reason it ends, a duration   *)
(* is assigned and a diagnostic naming the remainder is logged.            *)
PartialMatchDiagnosed ==
    \A k \in SceneIds :
        (hist[k].finished /\ hist[k].matched # {} /\ hist[k].remainder # <<>>) =>
            /\ scenes[k].duration # <<>>
            /\ Logged("warning", k, "partial_match", hist[k].remainder)

\* Scene k's scan met, at index x and after its first match, a timestamp
\* with text that is not a prefix of what was left of the narration.
BrokeAt(k, x) ==
    /\ x \in hist[k].examined
    /\ Tok(x) # <<>>
    /\ \E m \in hist[k].matched : m < x
    /\ ~IsPrefix(Tok(x), RemainingAt(k, x))

(* C8: a timestamp with text that is examined after the scene's first      *)
(* match and is not a prefix of the remaining narration ends the scan at   *)
(* once: it is not matched, nothing after it is examined, the cursor is    *)
(* its index, and the next scene starts there.  For "ABCDE" against ABC    *)
(* 0-500, XYZ 500-700, DE 700-900 the scene matches index 0 only, the      *)
(* cursor ends at 1 and the duration is 0.8 s.                             *)
BreakOnMismatch ==
    /\ \A k \in SceneIds : \A x \in TimestampIds :
          BrokeAt(k, x) =>
              /\ x \notin hist[k].matched
              /\ \A y \in hist[k].examined : y <= x
              /\ ~(k = i + 1 /\ pc = "scan")
              /\ (k = i + 1 /\ pc = "post" => timestamp_cursor = x)
              /\ (hist[k].finished => hist[k].cursor_out = x)
              /\ (k + 1 \in SceneIds /\ hist[k + 1].begun =>
                     /\ hist[k + 1].cursor_in = x
                     /\ \A y \in hist[k + 1].examined : y >= x)
    /\ (Done /\ NumScenes = 1 /\ scenes[1].narration = ABCDE
          /\ word_timestamps = ABCDETimestamps) =>
          /\ hist[1].matched = {0}
          /\ hist[1].examined = {0, 1}
          /\ timestamp_cursor = 1
          /\ scenes[1].duration = <<800>>

BreakOnMismatchWitness ==
    \E k \in SceneIds : \E x \in TimestampIds :
        /\ BrokeAt(k, x)
        /\ k + 1 \in SceneIds
        /\ x \in hist[k + 1].matched
        /\ hist[k].cursor_in < Min(hist[k].matched)

\* The timestamps c..e, the last of them with text, spell exactly the
\* narration of scene k.
Spells(k, c, e) ==
    /\ c <= e
    /\ Tok(e) # <<>>
    /\ Norm(k) # <<>>
    /\ Concat(c, e) = Norm(k)

\* Scene k began at cursor c, and the timestamps c..e spell its narration.
SpelledBy(k, c, e) == hist[k].begun /\ hist[k].cursor_in = c /\ Spells(k, c, e)

(* C9: if the timestamps from the cursor c up to k spell exactly the       *)
(* scene's narration (timestamps without text ignored), the scene matches  *)
(* exactly those, its duration is (end of k - start of the first matched)  *)
(* + 300 ms, nothing after k is examined and the cursor becomes k + 1.     *)
(* Two tokens at 1000-1400 and 1400-2000 give 1.3 s.                       *)
ExactMatch ==
    /\ \A k \in SceneIds : \A e \in TimestampIds :
          (hist[k].finished /\ SpelledBy(k, hist[k].cursor_in, e)) =>
              LET c == hist[k].cursor_in IN
              /\ hist[k].matched = NonEmptyIds(c, e)
              /\ hist[k].examined = c..e
              /\ hist[k].remainder = <<>>
              /\ hist[k].cursor_out = e + 1
              /\ scenes[k].duration =
                    << word_timestamps[e + 1].end
                       - word_timestamps[Min(NonEmptyIds(c, e)) + 1].start + 300 >>
    /\ (Done /\ NumScenes = 1 /\ scenes[1].narration = NiHaoShiJie
          /\ word_timestamps = NiHaoTimestamps) =>
          scenes[1].duration = <<1300>>

ExactMatchWitness ==
    \E k \in SceneIds : \E e \in TimestampIds :
        /\ hist[k].finished
        /\ SpelledBy(k, hist[k].cursor_in, e)
        /\ hist[k].cursor_in > 0
        /\ Cardinality(NonEmptyIds(hist[k].cursor_in, e)) >= 2

(* C10: two consecutive scenes whose narrations are spelled by adjacent    *)
(* stretches c..k and k+1..n of the timestamp list match exactly the       *)
(* timestamps of their own stretch: two disjoint runs, the second starting *)
(* right after the first, both scenes matched in full.                     *)
AdjacentScenesDisjointRuns ==
    \A k \in SceneIds : \A e \in TimestampIds : \A n \in TimestampIds :
        (/\ k + 1 \in SceneIds
         /\ hist[k + 1].finished
         /\ SpelledBy(k, hist[k].cursor_in, e)
         /\ Spells(k + 1, e + 1, n)) =>
            /\ hist[k].matched = NonEmptyIds(hist[k].cursor_in, e)
            /\ hist[k + 1].cursor_in = e + 1
            /\ hist[k + 1].matched = NonEmptyIds(e + 1, n)
            /\ hist[k].matched \cap hist[k + 1].matched = {}
            /\ Max(hist[k].matched) < Min(hist[k + 1].matched)
            /\ hist[k].remainder = <<>>
            /\ hist[k + 1].remainder = <<>>

AdjacentScenesWitness ==
    \E k \in SceneIds : \E e \in TimestampIds : \E n \in TimestampIds :
        /\ k + 1 \in SceneIds
        /\ hist[k + 1].finished
        /\ SpelledBy(k, hist[k].cursor_in, e)
        /\ Spells(k + 1, e + 1, n)
        /\ Cardinality(hist[k].matched) + Cardinality(hist[k + 1].matched) >= 3

\* what a scene is apart from its duration
Identity(sc) == <<sc.narration, sc.visual_prompt>>

(* C11: the scene list holds the same scenes, in the same order and number *)
(* as the list that was passed in, at every step and on return.            *)
SameScenesInOrder ==
    /\ Len(scenes) = Len(call.input.scenes)
    /\ [k \in DOMAIN scenes |-> Identity(scenes[k])]
          = [k \in DOMAIN call.input.scenes |-> Identity(call.input.scenes[k])]

SameScenesWitness ==
    /\ Done
    /\ NumScenes >= 2
    /\ scenes[1].narration = scenes[2].narration
    /\ scenes[1].duration # scenes[2].duration
    /\ \E k \in DOMAIN scenes : scenes[k].duration = <<5000>>

(* C12: the timestamp list is left as it was passed in, and of a scene     *)
(* only the duration changes: narration and visual_prompt stay, and no     *)
(* other key appears.                                                      *)
InputsPreserved ==
    /\ word_timestamps = call.input.timestamps
    /\ \A k \in DOMAIN scenes \cap DOMAIN call.input.scenes :
          /\ DOMAIN scenes[k] = {"narration", "visual_prompt", "duration"}
          /\ scenes[k].narration = call.input.scenes[k].narration
          /\ scenes[k].visual_prompt = call.input.scenes[k].visual_prompt

InputsPreservedWitness ==
    /\ Done
    /\ \E k \in SceneIds :
          /\ scenes[k].narration = <<" ", "a", ",", "b", " ">>
          /\ \E x \in hist[k].examined : Tok(x) = <<>>
          /\ Cardinality(hist[k].matched) = 2

(* C13: a second call on the same timestamps, with the scenes as first    *)
(* passed or with the scenes the first call returned, ends with the same   *)
(* duration on every scene as the first call.                              *)
RepeatableDurations ==
    (Done /\ call.run = "again") => Durations(scenes) = call.first

RepeatableWitness ==
    /\ Done
    /\ call.run = "again"
    /\ scenes # call.input.scenes
    /\ \E k \in SceneIds : hist[k].matched # {} /\ hist[k].remainder # <<>>
    /\ \E k \in SceneIds : scenes[k].duration = <<2000>>

(* C14: after a scene that matched at least one timestamp but not all of  *)
(* its narration, the cursor is past every index the scene matched, and no *)
(* later scene starts its scan at or before one of them.                   *)
CursorPastPartialMatch ==
    \A k \in SceneIds :
        (hist[k].finished /\ hist[k].matched # {} /\ hist[k].remainder # <<>>) =>
            /\ hist[k].cursor_out > Max(hist[k].matched)
            /\ \A k2 \in SceneIds :
                  (k2 > k /\ hist[k2].begun) =>
                      hist[k2].cursor_in > Max(hist[k].matched)

\* s without its first n characters
Drop(s, n) == [m \in 1..(Len(s) - n) |-> s[m + n]]

\* the remaining-narration buffer of scene k when index x is examined: its
\* narration less the words matched before x
BufferAt(k, x) == Drop(Norm(k), TotalLen({ m \in hist[k].matched : m < x }))

\* scene k is the one being scanned or just scanned
Current(k) == k = i + 1 /\ pc \in {"scan", "post"}

(* C15: an examined timestamp is matched exactly when its normalized text  *)
(* is non-empty and a prefix of the scene's remaining narration at that    *)
(* moment, and each match removes exactly the matched characters from the  *)
(* front of the buffer.                                                    *)
StrictPrefixMatching ==
    \A k \in SceneIds :
        /\ \A x \in hist[k].examined :
              x \in hist[k].matched <=>
                  (Tok(x) # <<>> /\ IsPrefix(Tok(x), BufferAt(k, x)))
        /\ hist[k].matched \subseteq hist[k].examined
        /\ Current(k) =>
              clean_narration_chars = Drop(Norm(k), TotalLen(hist[k].matched))
        /\ (hist[k].finished /\ Norm(k) # <<>>) =>
              hist[k].remainder = Drop(Norm(k), TotalLen(hist[k].matched))

StrictPrefixWitness ==
    \E k \in SceneIds : \E x \in hist[k].examined : \E m \in hist[k].matched :
        /\ m < x
        /\ Len(Tok(m)) = 2
        /\ x \notin hist[k].matched
        /\ Len(Tok(x)) > Len(BufferAt(k, x))
        /\ BufferAt(k, x) # <<>>

\* Scene k examined index x before any match, and x has text that is not a
\* prefix of the narration.
NoiseBeforeMatch(k, x) ==
    /\ x \in hist[k].examined
    /\ Tok(x) # <<>>
    /\ ~IsPrefix(Tok(x), Norm(k))
    /\ \A m \in hist[k].matched : m > x

(* C16: before a scene's first match, a timestamp that is not a prefix of *)
(* the narration neither ends the scan nor moves the cursor: the scan goes *)
(* on with the next index, up to the end of the list, and a scene that     *)
(* never matches has examined everything from the cursor on and leaves the *)
(* cursor where it was.                                                    *)
ScanContinuesBeforeFirstMatch ==
    \A k \in SceneIds :
        /\ \A x \in TimestampIds :
              NoiseBeforeMatch(k, x) =>
                  /\ x + 1 < NumTimestamps =>
                        (x + 1 \in hist[k].examined \/ (Current(k) /\ pc = "scan" /\ j = x + 1))
                  /\ x + 1 = NumTimestamps =>
                        (hist[k].finished \/ (Current(k) /\ j = NumTimestamps))
        /\ (Current(k) /\ hist[k].matched = {}) =>
              timestamp_cursor = hist[k].cursor_in
        /\ (hist[k].finished /\ Norm(k) # <<>> /\ hist[k].matched = {}) =>
              /\ hist[k].examined = hist[k].cursor_in..(NumTimestamps - 1)
              /\ hist[k].cursor_out = hist[k].cursor_in

ScanContinuesWitness ==
    \E k \in SceneIds :
        /\ hist[k].finished
        /\ hist[k].cursor_in > 0
        /\ NoiseBeforeMatch(k, hist[k].cursor_in)
        /\ hist[k].matched # {}
        /\ Min(hist[k].matched) > hist[k].cursor_in

RECURSIVE ReadsUpTo(_)
\* timestamp entries examined by scenes 1..k, every examination counted
ReadsUpTo(k) == IF k = 0 THEN 0 ELSE hist[k].reads + ReadsUpTo(k - 1)

TotalReads == ReadsUpTo(NumScenes)

(* C17 as claimed: the timestamp entries examined, summed over all scenes, *)
(* number at most len(scenes) + len(timestamps).                           *)
LinearWork == TotalReads <= NumScenes + NumTimestamps

(* C17 as amended: a scene examines each timestamp at or after the cursor  *)
(* it started with at most once, so the entries examined, summed over all  *)
(* scenes, number at most len(scenes) * len(timestamps).                   *)
BoundedWork ==
    /\ \A k \in SceneIds :
          /\ hist[k].reads = Cardinality(hist[k].examined)
          /\ hist[k].reads <= NumTimestamps - hist[k].cursor_in
    /\ TotalReads <= NumScenes * NumTimestamps

BoundedWorkWitness ==
    /\ Done
    /\ NumScenes >= 2
    /\ \A k \in SceneIds : hist[k].matched = {}
    /\ TotalReads = NumScenes * NumTimestamps
    /\ TotalReads > NumScenes + NumTimestamps

\* the duration that an assignment of the given kind writes to scene k
Written(k, kind) ==
    CASE kind = "no_narration" -> scenes[k].duration = <<2000>>
      [] kind = "unmatched" -> scenes[k].duration = <<5000>>
      [] kind = "matched" ->
            /\ hist[k].matched # {}
            /\ scenes[k].duration # <<>>

(* C18: in one call each scene's duration is written exactly once, by      *)
(* exactly one of the three assignments, and the scenes are written in     *)
(* list order: the n-th write is to scene n, and on return every scene has *)
(* been written.                                                           *)
WrittenOnceInOrder ==
    /\ Len(assigned) = i
    /\ \A n \in DOMAIN assigned :
          /\ assigned[n].scene = n
          /\ assigned[n].kind \in {"no_narration", "matched", "unmatched"}
          /\ Written(n, assigned[n].kind)
    /\ \A k \in SceneIds :
          /\ hist[k].writes = (IF k <= i THEN 1 ELSE 0)
          /\ k > i => scenes[k].duration = call.input.scenes[k].duration
    /\ Done => Len(assigned) = NumScenes

WrittenOnceWitness ==
    /\ Done
    /\ NumScenes >= 2
    /\ assigned[1].kind = "unmatched"
    /\ assigned[2].kind = "no_narration"

(* C19: a timestamp whose normalized text is empty is never matched and   *)
(* never ends a scan (the next index is examined after it), and a call on  *)
(* the same scenes against the list with every such timestamp deleted ends *)
(* with the same duration on every scene.                                  *)
NoiseTransparent ==
    /\ \A k \in SceneIds : \A x \in hist[k].examined :
          Tok(x) = <<>> =>
              /\ x \notin hist[k].matched
              /\ x + 1 < NumTimestamps =>
                    (x + 1 \in hist[k].examined \/ (Current(k) /\ pc = "scan" /\ j = x + 1))
              /\ x + 1 = NumTimestamps =>
                    (hist[k].finished \/ (Current(k) /\ j = NumTimestamps))
    /\ (Done /\ call.run = "without_noise") => Durations(scenes) = call.first

NoiseTransparentWitness ==
    /\ Done
    /\ call.run = "without_noise"
    /\ Len(call.input.timestamps) = 3
    /\ NumTimestamps = 2
    /\ FilterAlnum(call.input.timestamps[2].text) = <<>>
    /\ \E k \in SceneIds : hist[k].matched = {0, 1}

\* the data-model invariant of the timestamp list: start <= end in every
\* entry, starts nondecreasing along the list
WellFormedTimes ==
    \A n \in DOMAIN word_timestamps :
        /\ word_timestamps[n].start <= word_timestamps[n].end
        /\ n > 1 => word_timestamps[n - 1].start <= word_timestamps[n].start

(* C20: when the timestamp list satisfies the data-model invariant, every  *)
(* duration produced is exactly 2.0 s, exactly 5.0 s, or the duration of a *)
(* scene that matched, which is at least 0.3 s.                            *)
DurationsInRange ==
    WellFormedTimes =>
        \A k \in SceneIds :
            hist[k].finished =>
                \/ scenes[k].duration = <<2000>> /\ hist[k].matched = {}
                \/ scenes[k].duration = <<5000>> /\ hist[k].matched = {}
                \/ /\ hist[k].matched # {}
                   /\ Len(scenes[k].duration) = 1
                   /\ scenes[k].duration[1] >= 300

DurationsInRangeWitness ==
    /\ WellFormedTimes
    /\ Done
    /\ \E k \in SceneIds :
          /\ Cardinality(hist[k].matched) >= 2
          /\ scenes[k].duration[1] > 1300
    /\ \E k \in SceneIds : scenes[k].duration = <<5000>>

-----------------------------------------------------------------------------
(* Properties of main() and of the cached model.                           *)

StageOrder ==
    [ content_plan |-> 1, audio |-> 2, timestamps |-> 3, alignment |-> 4,
      image |-> 5, assembly |-> 6 ]

\* the positions of main.invoked at which `stage` was invoked
InvokedAt(stage) == { n \in DOMAIN main.invoked : main.invoked[n].stage = stage }

\* the call at position n came back with a result that main accepts
CameBackWell(n) == main.invoked[n].outcome = "ok"

\* no collaborator reported a failure: none returned a falsy value
NoneReportedFailure ==
    \A n \in DOMAIN main.invoked : main.invoked[n].outcome # "failed"

\* the durations calculate_scene_durations computed, as a production list
ComputedDurations == [k \in DOMAIN scenes |-> scenes[k].duration[1]]

(* C21: a run of main in which no collaborator reports a failure, which    *)
(* got a plan with narration, an audio file and timestamps, ends with exit *)
(* status 0, one image call per scene in scene order, a production list of *)
(* one entry per scene with the scene's computed duration, and one         *)
(* assembly call after the images.                                         *)
PipelineSucceeds ==
    ( /\ main.pc = "exited"
      /\ NoneReportedFailure
      /\ \A s \in {"content_plan", "audio", "timestamps"} :
            \E n \in InvokedAt(s) : CameBackWell(n) )
    =>
    ( /\ main.exit_status = 0
      /\ Cardinality(InvokedAt("image")) = NumScenes
      /\ Len(main.production_list) = NumScenes
      /\ \A k \in DOMAIN main.production_list :
            main.production_list[k].duration = ComputedDurations[k]
      /\ Cardinality(InvokedAt("assembly")) = 1
      /\ \A a \in InvokedAt("assembly"), n \in InvokedAt("image") : n < a )

\* main is past its try block: in the finally clause or gone
Leaving == main.pc \in {"finally", "exited"}

(* C22: main invokes its stages in the order content plan, audio,          *)
(* timestamps, alignment, images, assembly, each at most once but for the  *)
(* images; a stage is invoked only when every stage before it came back    *)
(* well; a stage that fails (no scenes, no narration, no audio path, no    *)
(* timestamps, an image or assembly failure) is the last one invoked and   *)
(* the run ends with exit status 1; calculate_scene_durations never runs   *)
(* on an empty timestamp list.                                             *)
StagesInOrderFailFast ==
    /\ \A m, n \in DOMAIN main.invoked :
          m < n =>
             /\ StageOrder[main.invoked[m].stage] <= StageOrder[main.invoked[n].stage]
             /\ main.invoked[m].stage = main.invoked[n].stage =>
                   main.invoked[m].stage = "image"
             /\ CameBackWell(m)
    /\ \A n \in DOMAIN main.invoked :
          \A s \in DOMAIN StageOrder :
             (StageOrder[s] < StageOrder[main.invoked[n].stage] /\ s # "image") =>
                \E m \in InvokedAt(s) : m < n
    /\ InvokedAt("image") # {} =>
          Cardinality(InvokedAt("image")) <= Len(main.scenes_with_duration)
    /\ (\E n \in DOMAIN main.invoked : ~CameBackWell(n)) =>
          Leaving /\ main.exit_status = 1
    /\ main.error # None => Leaving /\ main.exit_status = 1
    /\ (main.content_plan.scenes = <<>> /\ main.pc # "plan") =>
          Leaving /\ main.exit_status = 1 /\ InvokedAt("audio") = {}
    /\ InvokedAt("audio") # {} => main.full_narration # <<>>
    /\ (main.pc \notin {"plan", "narration"} /\ main.full_narration = <<>>) =>
          Leaving /\ main.exit_status = 1 /\ InvokedAt("audio") = {}
    /\ InvokedAt("timestamps") # {} => main.audio_path # None
    /\ InvokedAt("alignment") # {} => main.word_timestamps # <<>>
    /\ pc # "idle" => word_timestamps # <<>> /\ InvokedAt("alignment") # {}
    /\ main.pc = "exited" => main.exit_status \in {0, 1}

\* the timestamp stage came back with an empty list: the run is over with
\* status 1, and the aligner was never entered
StagesInOrderFailFastWitness ==
    /\ main.pc = "exited"
    /\ main.exit_status = 1
    /\ main.error = "no_timestamps"
    /\ Len(main.invoked) = 3
    /\ main.invoked[1] = [stage |-> "content_plan", outcome |-> "ok"]
    /\ main.invoked[2] = [stage |-> "audio", outcome |-> "ok"]
    /\ main.invoked[3] = [stage |-> "timestamps", outcome |-> "failed"]
    /\ Len(main.content_plan.scenes) = 2
    /\ pc = "idle"
    /\ Len(whisper_calls) = 1
    /\ whisper_calls[1].returned = <<>>
    /\ whisper_calls[1].load_model = "returned"

\* a load was attempted and failed at call n: the if of line 36 was entered
\* and the model is still None after it
LoadFailedAt(n) ==
    /\ whisper_calls[n].attempted
    /\ whisper_calls[n].model_after = None

(* C23: over any sequence of generate_timestamps_from_audio calls,         *)
(* load_model is invoked only in a call that found the cached model None,  *)
(* never in a call after one in which it returned; a call whose load       *)
(* fails leaves the cache None and returns the empty list, and the call    *)
(* after it attempts the load again.                                       *)
ModelLoadedLazilyAndCached ==
    /\ \A n \in DOMAIN whisper_calls :
          LET c == whisper_calls[n] IN
          /\ c.load_model # "not_invoked" => c.model_before = None
          /\ c.attempted <=> c.model_before = None
          /\ (\E m \in 1..(n - 1) : whisper_calls[m].load_model = "returned") =>
                /\ c.load_model = "not_invoked"
                /\ c.model_before = WhisperModel
                /\ c.model_after = WhisperModel
          /\ c.load_model = "returned" <=>
                (c.model_before = None /\ c.model_after = WhisperModel)
          /\ LoadFailedAt(n) => c.returned = <<>> /\ c.logged = "error"
          /\ n > 1 => c.model_before = whisper_calls[n - 1].model_after
          /\ (n > 1 /\ LoadFailedAt(n - 1)) => c.attempted
    /\ whisper_calls # <<>> =>
          whisper_model = whisper_calls[Len(whisper_calls)].model_after
    /\ whisper_calls = <<>> => whisper_model = None
    /\ Cardinality({ n \in DOMAIN whisper_calls :
                        whisper_calls[n].load_model = "returned" }) <= 1

\* load_model raises in the first call, returns in the second, and the
\* third call aligns with the cached model
ModelLoadedLazilyAndCachedWitness ==
    /\ Len(whisper_calls) = 3
    /\ whisper_calls[1].load_model = "raised"
    /\ whisper_calls[1].returned = <<>>
    /\ whisper_calls[2].load_model = "returned"
    /\ whisper_calls[3].load_model = "not_invoked"
    /\ whisper_calls[3].model_before = WhisperModel
    /\ whisper_calls[3].returned # <<>>
    /\ whisper_model = WhisperModel

====
